---- MODULE Spec2Model ----
(***************************************************************************)
(* Model of operators/face_model_loader.py: loadICTFaceModel, the routine  *)
(* that turns a directory of OBJ files plus a JSON manifest into one base  *)
(* mesh carrying one shape key per imported expression / identity mesh.    *)
(*                                                                         *)
(* The host application (bpy) is modelled by the part of its state the     *)
(* routine reads and writes: the objects of the scene with their names,    *)
(* the selection, the active object and the shape keys of the base mesh.   *)
(* A call of the OBJ importer has one of three outcomes, the three the     *)
(* routine itself tells apart:                                             *)
(*   "ok"    one new object is created and is the only selected object;    *)
(*   "none"  the call returns, nothing is created, nothing is selected;    *)
(*   "raise" the call raises and creates nothing; the selection is either  *)
(*           left as it was or already cleared.                            *)
(* join_shapes() and delete() act on the selection and return.             *)
(***************************************************************************)
EXTENDS Integers, Sequences, FiniteSets, TLC

\* Bounds of the model: the longest manifest "expressions" list, and the
\* identity indices 0 .. MaxIdentityFiles-1 a directory may hold files for.
MaxExpressions == 2
MaxIdentityFiles == 4

\* Names fixed by the routine (lines 38-41).
face_model_name == "ICTFaceModel"
generic_neutral_filename == "generic_neutral_mesh.obj"
config_filename == "vertex_indices.json"

\* "{:03d}".format(n): decimal, zero-padded to a width of at least three.
ZeroPad3(n) ==
    IF n < 10 THEN "00" \o ToString(n)
    ELSE IF n < 100 THEN "0" \o ToString(n)
    ELSE ToString(n)

\* identity_morph_target_name.format(identity_num)
identity_morph_target_name(n) == "identity" \o ZeroPad3(n)

\* name + '.obj'
ObjFile(name) == name \o ".obj"

\* The expression names a manifest of the model may list.
ExpressionNames == {"smile", "frown"}

\* The name the importer gives a new object; it comes from the file, not
\* from the routine, and is no label the routine assigns.
ImportedObjectName == "obj"

\* Python's None for object references; object handles are 1, 2, ...
None == 0

VARIABLES
    isdir,            \* os.path.isdir(folderpath)
    files,            \* the file names present in folderpath
    config_json,      \* content of vertex_indices.json: [valid, value]
    pc,               \* position of the call in loadICTFaceModel
    error,            \* the exception the call ended with, "" if none
    result,           \* the returned pair, <<>> before the return
    face_model_neutral_object,
    expressions,      \* the list the expression loop iterates, <<>> before
    expression_pos,   \* position of that loop in the list, from 1
    expression_names, expression_models,
    identity_names, identity_models, identity_num,
    objects,          \* bpy.data.objects: handle -> name
    selected_objects, \* bpy.context.selected_objects
    active,           \* bpy.context.view_layer.objects.active
    shape_keys,       \* shape key names of the base mesh, in creation order
    calls             \* the host operator calls made so far, with outcome

vars == <<isdir, files, config_json, pc, error, result,
          face_model_neutral_object,
          expressions, expression_pos, expression_names, expression_models,
          identity_names, identity_models, identity_num,
          objects, selected_objects, active, shape_keys, calls>>

inputs == <<isdir, files, config_json>>
locals == <<face_model_neutral_object,
            expressions, expression_pos, expression_names, expression_models,
            identity_names, identity_models, identity_num>>
expression_vars == <<expressions, expression_pos, expression_names, expression_models>>
identity_vars == <<identity_names, identity_models, identity_num>>
host == <<objects, selected_objects, active, shape_keys, calls>>

----------------------------------------------------------------------------
\* Inputs

Range(s) == {s[i] : i \in 1..Len(s)}

SeqsUpTo(S, n) == UNION {[1..k -> S] : k \in 0..n}

IdentityFiles == {ObjFile(identity_morph_target_name(i)) : i \in 0..(MaxIdentityFiles - 1)}

AllFiles ==
    {generic_neutral_filename, config_filename}
        \cup {ObjFile(n) : n \in ExpressionNames}
        \cup IdentityFiles

\* What json.load makes of the manifest file: not JSON at all, or a dict.
\* <<>> is the empty dict {}.
InvalidJson == [valid |-> FALSE, value |-> <<>>]
EmptyObject == [valid |-> TRUE, value |-> <<>>]
ObjectWithoutExpressions == [valid |-> TRUE, value |-> [other |-> 1]]
ObjectWithExpressions(s) == [valid |-> TRUE, value |-> [expressions |-> s]]

ManifestContents ==
    {InvalidJson, EmptyObject, ObjectWithoutExpressions}
        \cup {ObjectWithExpressions(s) : s \in SeqsUpTo(ExpressionNames, MaxExpressions)}

\* The parsed manifest (the local variable config, line 67).
config == config_json.value

----------------------------------------------------------------------------
\* Host services

ImportOutcomes == {"ok", "none", "raise"}

NewHandle == Cardinality(DOMAIN objects) + 1

Call(op, file, outcome) == [op |-> op, file |-> file, outcome |-> outcome]

\* The scene after a call of the importer with the given outcome.
ObjectsAfterImport(outcome) ==
    IF outcome = "ok" THEN objects @@ (NewHandle :> ImportedObjectName) ELSE objects

\* import_obj(filepath) (lines 16-31) with the given outcome: its effect on
\* the selection, and its record in the call log.
import_obj(filepath, outcome) ==
    /\ calls' = Append(calls, Call("import", filepath, outcome))
    /\ CASE outcome = "ok" -> selected_objects' = {NewHandle}
         [] outcome = "none" -> selected_objects' = {}
         [] outcome = "raise" -> selected_objects' \in {selected_objects, {}}

\* bpy.context.selected_objects[0]
FirstSelected(sel) ==
    IF sel = {} THEN None ELSE CHOOSE x \in sel : \A y \in sel : x <= y

\* obj.name = name
Rename(objs, h, name) ==
    IF h \in DOMAIN objs THEN [objs EXCEPT ![h] = name] ELSE objs

\* The names of the objects of S, by handle.
RECURSIVE NamesOf(_)
NamesOf(S) ==
    IF S = {} THEN <<>>
    ELSE LET h == CHOOSE x \in S : \A y \in S : x <= y
         IN  <<objects[h]>> \o NamesOf(S \ {h})

----------------------------------------------------------------------------
\* loadICTFaceModel

Raise(e) ==
    /\ pc' = "Failed"
    /\ error' = e

Init ==
    /\ isdir \in BOOLEAN
    /\ files \in SUBSET AllFiles
    /\ ~isdir => files = {}
    /\ config_json \in ManifestContents
    /\ config_filename \notin files => config_json = InvalidJson
    /\ pc = "Idle"
    /\ error = ""
    /\ result = <<>>
    /\ face_model_neutral_object = None
    /\ expressions = <<>>
    /\ expression_pos = 1
    /\ expression_names = <<>>
    /\ expression_models = <<>>
    /\ identity_names = <<>>
    /\ identity_models = <<>>
    /\ identity_num = 0
    /\ objects = <<>>
    /\ selected_objects = {}
    /\ active = None
    /\ shape_keys = <<>>
    /\ calls = <<>>

\* The call itself (lines 33-41).
Invoke ==
    /\ pc = "Idle"
    /\ pc' = "CheckDir"
    /\ UNCHANGED <<inputs, error, result, locals, host>>

\* Lines 45-47.
CheckDir ==
    /\ pc = "CheckDir"
    /\ IF ~isdir
       THEN Raise("ValueError: Invalid directory path")
       ELSE pc' = "CheckFiles" /\ error' = error
    /\ UNCHANGED <<inputs, result, locals, host>>

MissingRequiredFile_ConfigOnly ==
    IF config_filename \notin files
    THEN "FileNotFoundError: Cannot find config file"
    ELSE ""

\* Lines 57-62: the error for the first required file that is missing, ""
\* when both are there.
MissingRequiredFile ==
    IF generic_neutral_filename \notin files
    THEN "FileNotFoundError: Cannot find neutral mesh"
    ELSE IF config_filename \notin files
    THEN "FileNotFoundError: Cannot find config file"
    ELSE ""

CheckFiles ==
    /\ pc = "CheckFiles"
    /\ IF MissingRequiredFile # ""
       THEN Raise(MissingRequiredFile)
       ELSE pc' = "LoadConfig" /\ error' = error
    /\ UNCHANGED <<inputs, result, locals, host>>

\* Lines 65-75.
LoadConfig ==
    /\ pc = "LoadConfig"
    /\ IF ~config_json.valid
       THEN Raise("ValueError: Invalid JSON in config file")
       ELSE IF DOMAIN config = {}
       THEN Raise("ValueError: Empty configuration file")
       ELSE pc' = "ImportBase" /\ error' = error
    /\ UNCHANGED <<inputs, result, locals, host>>

BaseImportFails_OnlyWhenNothingSelected(outcome) == outcome = "none"

\* Lines 85-87 and 93-96: nothing selected after the import, or any
\* exception, ends the call with ImportError.
BaseImportFails(outcome) ==
    outcome = "raise" \/ selected_objects' = {}

\* Lines 78-96.
ImportBase ==
    /\ pc = "ImportBase"
    /\ \E outcome \in ImportOutcomes :
          /\ import_obj(generic_neutral_filename, outcome)
          /\ IF BaseImportFails(outcome)
             THEN /\ objects' = ObjectsAfterImport(outcome)
                  /\ face_model_neutral_object' = face_model_neutral_object
                  /\ Raise("ImportError: Error importing neutral mesh")
             ELSE /\ face_model_neutral_object' = FirstSelected(selected_objects')
                  /\ objects' = Rename(ObjectsAfterImport(outcome),
                                       face_model_neutral_object', face_model_name)
                  /\ pc' = "ReadExpressions"
                  /\ error' = error
    /\ UNCHANGED <<inputs, result, expression_vars, identity_vars, active, shape_keys>>

Get(d, key) ==
    [found |-> TRUE, value |-> IF key \in DOMAIN d THEN d[key] ELSE <<>>]

\* d[key] of a dict: the value, or KeyError.
Subscript(d, key) ==
    IF key \in DOMAIN d
    THEN [found |-> TRUE, value |-> d[key]]
    ELSE [found |-> FALSE, value |-> <<>>]

\* Lines 99-101: the lists are created and config['expressions'] is read.
ReadExpressions ==
    /\ pc = "ReadExpressions"
    /\ LET e == Subscript(config, "expressions")
       IN  IF ~e.found
           THEN Raise("KeyError: 'expressions'") /\ expressions' = expressions
           ELSE pc' = "Expressions" /\ error' = error /\ expressions' = e.value
    /\ UNCHANGED <<inputs, result, face_model_neutral_object, expression_pos,
                   expression_names, expression_models, identity_vars, host>>

ExpressionFileMissing_Never(filename) == FALSE

\* Line 104: not os.path.exists(filepath)
ExpressionFileMissing(filename) == filename \notin files

\* Lines 101-123: one iteration of the expression loop.  Both the soft
\* failure (line 114) and an exception (line 123) continue.
ExpressionIteration ==
    /\ pc = "Expressions"
    /\ expression_pos <= Len(expressions)
    /\ LET expression_name == expressions[expression_pos]
           filename == ObjFile(expression_name)
       IN  IF ExpressionFileMissing(filename)
           THEN UNCHANGED <<expression_names, expression_models, host>>
           ELSE \E outcome \in ImportOutcomes :
                   /\ import_obj(filename, outcome)
                   /\ IF outcome = "ok"
                      THEN LET imported_object == FirstSelected(selected_objects')
                           IN  /\ objects' = Rename(ObjectsAfterImport(outcome),
                                                    imported_object, expression_name)
                               /\ expression_names' = Append(expression_names, expression_name)
                               /\ expression_models' = Append(expression_models, imported_object)
                      ELSE /\ objects' = ObjectsAfterImport(outcome)
                           /\ UNCHANGED <<expression_names, expression_models>>
                   /\ UNCHANGED <<active, shape_keys>>
    /\ expression_pos' = expression_pos + 1
    /\ UNCHANGED <<inputs, pc, error, result, face_model_neutral_object,
                   expressions, identity_vars>>

\* Line 101, the list is exhausted; lines 125-126.
ExpressionsExhausted ==
    /\ pc = "Expressions"
    /\ expression_pos > Len(expressions)
    /\ pc' = "Identities"
    /\ UNCHANGED <<inputs, error, result, locals, host>>

IdentityFileMissing_NoneFrom(n) ==
    \A i \in n..(n + MaxIdentityFiles) :
        ObjFile(identity_morph_target_name(i)) \notin files

\* Line 133: not os.path.exists(filepath)
IdentityFileMissing(n) == ObjFile(identity_morph_target_name(n)) \notin files

NextCount_Stuck(n) == n

\* Line 128: itertools.count() steps by one.
NextCount(n) == n + 1

AfterIdentityException_Continue == "continue"

\* Line 146 and line 155: what the identity loop does after an import that
\* selected nothing, and after an exception.
AfterIdentitySoftFail == "continue"
AfterIdentityException == "break"

\* Lines 128-155: one iteration of the identity loop.
IdentityIteration ==
    /\ pc = "Identities"
    /\ LET identity_name == identity_morph_target_name(identity_num)
           identity_filename == ObjFile(identity_name)
       IN  IF IdentityFileMissing(identity_num)
           THEN /\ pc' = "NonEmptyCheck"
                /\ UNCHANGED <<identity_vars, host>>
           ELSE \E outcome \in ImportOutcomes :
                   /\ import_obj(identity_filename, outcome)
                   /\ IF outcome = "ok"
                      THEN LET imported_object == FirstSelected(selected_objects')
                           IN  /\ objects' = Rename(ObjectsAfterImport(outcome),
                                                    imported_object, identity_name)
                               /\ identity_names' = Append(identity_names, identity_name)
                               /\ identity_models' = Append(identity_models, imported_object)
                      ELSE /\ objects' = ObjectsAfterImport(outcome)
                           /\ UNCHANGED <<identity_names, identity_models>>
                   /\ LET control == CASE outcome = "ok" -> "continue"
                                       [] outcome = "none" -> AfterIdentitySoftFail
                                       [] outcome = "raise" -> AfterIdentityException
                      IN  IF control = "break"
                          THEN pc' = "NonEmptyCheck" /\ identity_num' = identity_num
                          ELSE pc' = pc /\ identity_num' = NextCount(identity_num)
                   /\ UNCHANGED <<active, shape_keys>>
    /\ UNCHANGED <<inputs, error, result, face_model_neutral_object, expression_vars>>

NoMorphTargets_ByNamesAndIndex == expression_names = <<>> /\ identity_num = 0

\* Line 157: not expression_models and not identity_models
NoMorphTargets == expression_models = <<>> /\ identity_models = <<>>

\* Lines 157-158.
NonEmptyCheck ==
    /\ pc = "NonEmptyCheck"
    /\ IF NoMorphTargets
       THEN Raise("ValueError: No valid morph targets found in directory")
       ELSE pc' = "JoinShapes" /\ error' = error
    /\ UNCHANGED <<inputs, result, locals, host>>

ModelsToSelect_IdentitiesOnly == Range(identity_models)

\* The objects lines 161-164 select.
ModelsToSelect == Range(expression_models) \cup Range(identity_models)

\* Lines 161-168: select the collected objects, make the base the active
\* object, join_shapes(): every selected object other than the active one
\* becomes a shape key of the active one, named as the object is.
JoinShapes ==
    /\ pc = "JoinShapes"
    /\ selected_objects' = selected_objects \cup ModelsToSelect
    /\ active' = face_model_neutral_object
    /\ shape_keys' = shape_keys \o NamesOf(selected_objects' \ {active'})
    /\ calls' = Append(calls, Call("join_shapes", "", "ok"))
    /\ pc' = "Delete"
    /\ UNCHANGED <<inputs, error, result, locals, objects>>

\* Line 171: delete() removes the selected objects.
Delete ==
    /\ pc = "Delete"
    /\ objects' = [h \in DOMAIN objects \ selected_objects |-> objects[h]]
    /\ selected_objects' = {}
    /\ calls' = Append(calls, Call("delete", "", "ok"))
    /\ pc' = "Return"
    /\ UNCHANGED <<inputs, error, result, locals, active, shape_keys>>

Return_Rearm ==
    /\ pc = "Return"
    /\ result' = <<Len(expression_models), Len(identity_models)>>
    /\ pc' = "CheckDir"
    /\ UNCHANGED <<inputs, error, locals, host>>

\* Line 173.
Return ==
    /\ pc = "Return"
    /\ result' = <<Len(expression_models), Len(identity_models)>>
    /\ pc' = "Done"
    /\ UNCHANGED <<inputs, error, locals, host>>

Next ==
    \/ Invoke
    \/ CheckDir
    \/ CheckFiles
    \/ LoadConfig
    \/ ImportBase
    \/ ReadExpressions
    \/ ExpressionIteration
    \/ ExpressionsExhausted
    \/ IdentityIteration
    \/ NonEmptyCheck
    \/ JoinShapes
    \/ Delete
    \/ Return

Spec == Init /\ [][Next]_vars

\* The call is one blocking, single-threaded run: a step that can be taken
\* is taken.
FairSpec == Spec /\ WF_vars(Next)

----------------------------------------------------------------------------
\* Reading the call log and the inputs

Terminal == pc \in {"Done", "Failed"}

ImportCallsOf(S) == SelectSeq(calls, LAMBDA c : c.op = "import" /\ c.file \in S)

IdentityCalls == ImportCallsOf(IdentityFiles)
ExpressionCalls == ImportCallsOf({ObjFile(n) : n \in ExpressionNames})

OkCount(cs) == Cardinality({j \in 1..Len(cs) : cs[j].outcome = "ok"})
AllOk(cs) == \A j \in 1..Len(cs) : cs[j].outcome = "ok"

\* The least identity index whose file is absent.
FirstMissingIdentity ==
    CHOOSE k \in 0..MaxIdentityFiles :
        /\ ObjFile(identity_morph_target_name(k)) \notin files
        /\ \A j \in 0..(k - 1) : ObjFile(identity_morph_target_name(j)) \in files

\* The manifest's expressions list, <<>> when it has none.
Manifest == IF "expressions" \in DOMAIN config THEN config.expressions ELSE <<>>

\* The positions among the first n of the manifest whose file is present.
PresentPositions(n) ==
    SelectSeq([p \in 1..n |-> p], LAMBDA p : ObjFile(Manifest[p]) \in files)

NoMorphTargetsError == "ValueError: No valid morph targets found in directory"

----------------------------------------------------------------------------
\* C1 as stated: whenever the call returns, the identity count is the first
\* missing identity index k, whatever the imports did.
C1_CountIsFirstGap ==
    pc = "Done" => result[2] = FirstMissingIdentity

\* C1 amended: the identity scan attempts the indices 0, 1, 2, ... in order
\* and none at or above the first missing index k; the identity count is the
\* number of those imports that succeeded, at most k, and exactly k when
\* every identity import succeeded.
C1_IdentityScanStopsAtFirstGap ==
    LET ic == IdentityCalls
    IN  /\ \A j \in 1..Len(ic) :
              /\ ic[j].file = ObjFile(identity_morph_target_name(j - 1))
              /\ j - 1 < FirstMissingIdentity
        /\ Len(identity_models) = OkCount(ic)
        /\ pc = "Done" =>
              /\ result[2] = OkCount(ic)
              /\ result[2] <= FirstMissingIdentity
              /\ AllOk(ic) => result[2] = FirstMissingIdentity

\* Files for 0, 1 and 3 but not 2: the call has returned two identities.
C1_Witness ==
    /\ pc = "Done"
    /\ files \cap IdentityFiles =
          {ObjFile(identity_morph_target_name(i)) : i \in {0, 1, 3}}
    /\ result[2] = 2

\* C2 as stated: whenever the call returns, the expression count is the
\* number of manifest entries whose file is present.
C2_CountIsPresentFiles ==
    pc = "Done" => result[1] = Len(PresentPositions(Len(Manifest)))

\* C2 amended: a manifest entry whose file is absent is passed over without
\* an import call and without an error, every entry whose file is present is
\* imported, in manifest order; the collected expressions are the entries
\* whose import succeeded, in manifest order, and the returned count is
\* their number: at most the number of present files, and equal to it when
\* every expression import succeeded.
C2_ExpressionsFollowManifest ==
    LET ec == ExpressionCalls
        pp == PresentPositions(expression_pos - 1)
        ok == SelectSeq([j \in 1..Len(ec) |-> j], LAMBDA j : ec[j].outcome = "ok")
    IN  /\ Len(ec) = Len(pp)
        /\ \A j \in 1..Len(ec) : ec[j].file = ObjFile(Manifest[pp[j]])
        /\ expression_names = [i \in 1..Len(ok) |-> Manifest[pp[ok[i]]]]
        /\ Len(expression_models) = Len(expression_names)
        /\ (pc = "Failed" /\ expression_pos > 1) => error = NoMorphTargetsError
        /\ pc = "Done" =>
              /\ expression_pos = Len(Manifest) + 1
              /\ result[1] = OkCount(ec)
              /\ result[1] <= Len(PresentPositions(Len(Manifest)))
              /\ AllOk(ec) => result[1] = Len(PresentPositions(Len(Manifest)))

\* The manifest lists smile and frown, only smile.obj and identity000.obj
\* are there: the call has returned (1, 1).
C2_Witness ==
    /\ pc = "Done"
    /\ Manifest = <<"smile", "frown">>
    /\ ObjFile("smile") \in files
    /\ ObjFile("frown") \notin files
    /\ files \cap IdentityFiles = {ObjFile(identity_morph_target_name(0))}
    /\ result = <<1, 1>>

\* C3: with the base mesh file missing the call makes no import call and can
\* only end with the FileNotFoundError naming it; with a manifest file that
\* holds {} (and the base mesh file there) it makes no import call and can
\* only end with the "Empty configuration file" ValueError.
C3_NoImportBeforeRequiredInputs ==
    /\ (isdir /\ generic_neutral_filename \notin files) =>
          /\ calls = <<>>
          /\ pc \in {"Idle", "CheckDir", "CheckFiles", "Failed"}
          /\ pc = "Failed" => error = "FileNotFoundError: Cannot find neutral mesh"
    /\ (isdir /\ {generic_neutral_filename, config_filename} \subseteq files
              /\ config_json = EmptyObject) =>
          /\ calls = <<>>
          /\ pc \in {"Idle", "CheckDir", "CheckFiles", "LoadConfig", "Failed"}
          /\ pc = "Failed" => error = "ValueError: Empty configuration file"

\* The manifest holds {}, identity and expression files are there, and the
\* call has failed.
C3_Witness ==
    /\ pc = "Failed"
    /\ config_json = EmptyObject
    /\ config_filename \in files
    /\ ObjFile(identity_morph_target_name(0)) \in files
    /\ error = "ValueError: Empty configuration file"
    /\ calls = <<>>

\* The base mesh file is missing and the call has failed.
C3_WitnessMissingBase ==
    /\ pc = "Failed"
    /\ isdir
    /\ generic_neutral_filename \notin files
    /\ config_filename \in files
    /\ error = "FileNotFoundError: Cannot find neutral mesh"
    /\ calls = <<>>

HostCalls(op) == SelectSeq(calls, LAMBDA c : c.op = op)

\* C4: once both loops are over with nothing collected, the call is at the
\* check of line 157 or has failed there with the "No valid morph targets"
\* ValueError; it has called neither join_shapes nor delete, and the base
\* object is still in the scene under its name.
C4_NoMorphTargetsFails ==
    /\ (expression_models = <<>> /\ identity_models = <<>>) =>
          /\ HostCalls("join_shapes") = <<>>
          /\ HostCalls("delete") = <<>>
          /\ pc \notin {"JoinShapes", "Delete", "Return", "Done"}
    /\ (pc = "Failed" /\ error = NoMorphTargetsError) =>
          /\ expression_models = <<>> /\ identity_models = <<>>
          /\ calls[1] = Call("import", generic_neutral_filename, "ok")
          /\ face_model_neutral_object \in DOMAIN objects
          /\ objects[face_model_neutral_object] = face_model_name

\* Files were there and imports were attempted in both loops, none gave an
\* object, and the call has failed with the base object in the scene.
C4_Witness ==
    /\ pc = "Failed"
    /\ error = NoMorphTargetsError
    /\ Len(ExpressionCalls) > 0
    /\ Len(IdentityCalls) > 0
    /\ DOMAIN objects = {face_model_neutral_object}

\* The names of the import calls after the first that gave an object, in
\* call order (the file name without ".obj").
VariantNames == ExpressionNames \cup {identity_morph_target_name(i) : i \in 0..MaxIdentityFiles}

ImportedVariantNames ==
    LET vc == SelectSeq(SubSeq(calls, 2, Len(calls)),
                        LAMBDA c : c.op = "import" /\ c.outcome = "ok")
    IN  [j \in 1..Len(vc) |-> CHOOSE n \in VariantNames : ObjFile(n) = vc[j].file]

\* C5: after a successful run the shape keys of the base are exactly the
\* successfully imported expressions and identities, each under its variant
\* name, as many as the two returned counts together; the base object was
\* not in the selection that was joined and deleted, and it is the only
\* object the run leaves in the scene.
C5_ShapeKeysAreImportedVariants ==
    /\ pc \in {"Delete", "Return", "Done"} =>
          /\ shape_keys = expression_names \o identity_names
          /\ shape_keys = ImportedVariantNames
          /\ active = face_model_neutral_object
    /\ pc = "Delete" =>
          /\ face_model_neutral_object \notin selected_objects
          /\ selected_objects = Range(expression_models) \cup Range(identity_models)
    /\ pc \in {"Return", "Done"} =>
          /\ DOMAIN objects = {face_model_neutral_object}
          /\ objects[face_model_neutral_object] = face_model_name
    /\ pc = "Done" => Len(shape_keys) = result[1] + result[2]

\* A run that collected two expressions and two identities, had an import
\* fail as well, and has returned.
C5_Witness ==
    /\ pc = "Done"
    /\ result = <<2, 2>>
    /\ \E j \in 1..Len(calls) : calls[j].outcome # "ok"

\* The manifest is a non-empty JSON object without the key "expressions".
ManifestLacksExpressions ==
    /\ config_json.valid
    /\ DOMAIN config # {}
    /\ "expressions" \notin DOMAIN config

\* C6 as stated: with a non-empty manifest that has no "expressions" key the
\* call does not fail where the list is read; it goes on to the identity loop
\* with no expressions collected.
C6_MissingKeyReachesIdentityLoop ==
    ManifestLacksExpressions =>
        ~(pc = "Failed" /\ error = "KeyError: 'expressions'")

\* C6 amended: with a non-empty manifest that has no "expressions" key, a
\* call whose base import succeeded fails with KeyError where the list is
\* read: the expression loop and the identity loop are never entered, the
\* base import is the only host call, and the base object stays in the scene.
C6_MissingKeyIsKeyError ==
    ManifestLacksExpressions =>
        /\ pc \notin {"Expressions", "Identities", "NonEmptyCheck",
                      "JoinShapes", "Delete", "Return", "Done"}
        /\ Len(calls) <= 1
        /\ (Len(calls) = 1 /\ calls[1].outcome = "ok") =>
              /\ pc \in {"ReadExpressions", "Failed"}
              /\ pc = "Failed" => error = "KeyError: 'expressions'"
              /\ objects = (face_model_neutral_object :> face_model_name)
        /\ expression_names = <<>> /\ identity_names = <<>> /\ identity_num = 0

\* Identity files are there, the manifest has no "expressions" key, the base
\* was imported and the call has failed.
C6_Witness ==
    /\ ManifestLacksExpressions
    /\ pc = "Failed"
    /\ error = "KeyError: 'expressions'"
    /\ calls = <<Call("import", generic_neutral_filename, "ok")>>
    /\ ObjFile(identity_morph_target_name(0)) \in files

\* C7: a base import that raises or selects nothing ends the call with
\* ImportError, with no object renamed, no anchor kept and no further import
\* attempted; a base import that gives an object leaves that object, renamed
\* to "ICTFaceModel", as face_model_neutral_object.
C7_BaseImport ==
    /\ calls = <<>> => face_model_neutral_object = None /\ objects = <<>>
    /\ Len(calls) >= 1 =>
          /\ calls[1].op = "import" /\ calls[1].file = generic_neutral_filename
          /\ calls[1].outcome # "ok" =>
                /\ pc = "Failed"
                /\ error = "ImportError: Error importing neutral mesh"
                /\ Len(calls) = 1
                /\ face_model_neutral_object = None
                /\ objects = <<>>
          /\ calls[1].outcome = "ok" =>
                /\ face_model_neutral_object = 1
                /\ 1 \in DOMAIN objects /\ objects[1] = face_model_name
                /\ ~(pc = "Failed" /\ error = "ImportError: Error importing neutral mesh")

\* The importer raised on the base mesh although expression and identity
\* files were there, and the call has failed.
C7_Witness ==
    /\ pc = "Failed"
    /\ calls = <<Call("import", generic_neutral_filename, "raise")>>
    /\ Manifest # <<>>
    /\ ObjFile(Manifest[1]) \in files
    /\ ObjFile(identity_morph_target_name(0)) \in files

\* The importer selected nothing on the base mesh, and the call has failed.
C7_WitnessNothingSelected ==
    /\ pc = "Failed"
    /\ calls = <<Call("import", generic_neutral_filename, "none")>>

\* C8: an exception in an expression import is skipped, every later manifest
\* entry whose file is present is still imported; an exception in an identity
\* import is the last import call of the run; neither ends the call with an
\* error of its own: after such an exception the call returns if anything
\* was collected, and fails only at the check of line 157 otherwise.
C8_ExceptionPolicy ==
    LET ec == ExpressionCalls
        ic == IdentityCalls
        raised == \E j \in 2..Len(calls) : calls[j].outcome = "raise"
    IN  /\ pc \in {"Identities", "NonEmptyCheck", "JoinShapes", "Delete", "Return", "Done"} =>
              Len(ec) = Len(PresentPositions(Len(Manifest)))
        /\ \A j \in 1..Len(ic) :
              ic[j].outcome = "raise" =>
                  /\ j = Len(ic)
                  /\ pc # "Identities"
                  /\ identity_num = j - 1
        /\ (raised /\ pc = "Failed") =>
              /\ error = NoMorphTargetsError
              /\ expression_models = <<>> /\ identity_models = <<>>
        /\ (raised /\ Terminal /\ (expression_models # <<>> \/ identity_models # <<>>)) =>
              /\ pc = "Done"
              /\ result = <<Len(expression_models), Len(identity_models)>>

\* The first expression import raised and the second entry was imported;
\* the second identity import raised with a third identity file there; the
\* call has returned.
C8_Witness ==
    /\ pc = "Done"
    /\ Len(ExpressionCalls) = 2
    /\ ExpressionCalls[1].outcome = "raise"
    /\ ExpressionCalls[2].outcome = "ok"
    /\ Len(IdentityCalls) = 2
    /\ IdentityCalls[2].outcome = "raise"
    /\ ObjFile(identity_morph_target_name(2)) \in files
    /\ result = <<1, 1>>

\* The phase of the pipeline a position of the call belongs to.
Phase(p) ==
    CASE p = "Idle" -> "Idle"
      [] p \in {"CheckDir", "CheckFiles", "LoadConfig"} -> "ValidatingInputs"
      [] p = "ImportBase" -> "ImportingBase"
      [] p \in {"ReadExpressions", "Expressions"} -> "ImportingExpressions"
      [] p = "Identities" -> "ImportingIdentities"
      [] p \in {"NonEmptyCheck", "JoinShapes", "Delete", "Return"} -> "Assembling"
      [] p = "Done" -> "Done"
      [] p = "Failed" -> "Failed"

PhaseOrder ==
    <<"Idle", "ValidatingInputs", "ImportingBase", "ImportingExpressions",
      "ImportingIdentities", "Assembling", "Done">>

PhaseRank(ph) == CHOOSE r \in 1..Len(PhaseOrder) : PhaseOrder[r] = ph

\* A step stays in its phase, moves to the next phase of the order, or
\* fails from a phase other than Done; nothing follows Done or Failed.
PhaseStep ==
    LET a == Phase(pc)
        b == Phase(pc')
    IN  \/ a = b
        \/ a \notin {"Done", "Failed"} /\ b = "Failed"
        \/ /\ a \notin {"Done", "Failed"}
           /\ b # "Failed"
           /\ PhaseRank(b) = PhaseRank(a) + 1

\* The place of a host call in the order base import, expression imports,
\* identity imports, join_shapes, delete.
CallRank(c) ==
    CASE c.op = "import" /\ c.file = generic_neutral_filename -> 1
      [] c.op = "import" /\ c.file \in {ObjFile(n) : n \in ExpressionNames} -> 2
      [] c.op = "import" /\ c.file \in IdentityFiles -> 3
      [] c.op = "join_shapes" -> 4
      [] c.op = "delete" -> 5

CallsInPhaseOrder ==
    /\ \A i \in 1..(Len(calls) - 1) :
          \/ CallRank(calls[i]) < CallRank(calls[i + 1])
          \/ CallRank(calls[i]) = CallRank(calls[i + 1]) /\ CallRank(calls[i]) \in {2, 3}
    /\ Len(calls) > 0 => CallRank(calls[1]) = 1
    /\ Phase(pc) \in {"Idle", "ValidatingInputs"} => calls = <<>>
    /\ pc = "Done" => /\ CallRank(calls[Len(calls)]) = 5
                      /\ CallRank(calls[Len(calls) - 1]) = 4

\* C9: the call moves through Idle, ValidatingInputs, ImportingBase,
\* ImportingExpressions, ImportingIdentities, Assembling, Done in that order,
\* one phase at a time and never back, or leaves a phase other than Done for
\* Failed; its host calls come in the same order: the base import, then the
\* expression imports, then the identity imports, then join_shapes, then
\* delete.
C9_PhasesInOrder == [][PhaseStep]_vars /\ []CallsInPhaseOrder

\* The call went through every phase up to Assembling, importing in both
\* loops, and failed there: Failed is reached from each phase but Done.
C9_Witness ==
    /\ pc = "Failed"
    /\ error = NoMorphTargetsError
    /\ Len(calls) = 4
    /\ CallRank(calls[2]) = 2
    /\ CallRank(calls[4]) = 3

\* Failure straight from ValidatingInputs, ImportingBase and
\* ImportingExpressions.
FailedInValidatingInputs == pc = "Failed" /\ calls = <<>>
FailedInImportingBase == pc = "Failed" /\ error = "ImportError: Error importing neutral mesh"
FailedInImportingExpressions == pc = "Failed" /\ error = "KeyError: 'expressions'"

\* An iteration of the identity loop that stays in the loop has moved to the
\* next index; one that finds its file absent leaves the loop.
IdentityLoopAdvances ==
    /\ (pc = "Identities" /\ pc' = "Identities") => identity_num' = identity_num + 1
    /\ (pc = "Identities" /\ IdentityFileMissing(identity_num) /\ pc' # pc) =>
          pc' = "NonEmptyCheck" /\ calls' = calls

\* C10: every call ends, in Done or in Failed; the identity loop moves to
\* the next index in every iteration that stays in the loop, the soft failure
\* included, and never goes past the first index whose file is absent.
C10_CallEnds ==
    /\ <>Terminal
    /\ [][IdentityLoopAdvances]_vars
    /\ [](identity_num <= FirstMissingIdentity)
    /\ [](pc = "Identities" => identity_num = Len(IdentityCalls))

\* Four identity files in a row; the first two imports selected nothing, the
\* loop went on to the fourth, and the call has ended.
C10_Witness ==
    /\ Terminal
    /\ Len(IdentityCalls) = 4
    /\ IdentityCalls[1].outcome = "none"
    /\ IdentityCalls[2].outcome = "none"
    /\ identity_num = 4

====
